---- MODULE Spec2Model ----
(***************************************************************************)
(* The client-side upload components of ACWhisk:                           *)
(*   EnhancedImageUpload  (src/src/components/DigitalPortfolio.tsx)        *)
(*   FixedMediaUpload     (src/src/components/FixedMediaUpload.tsx)        *)
(*   RobustImageUpload    (src/src/components/RobustImageUpload.tsx)       *)
(*   SimpleImageUpload    (src/src/components/SimpleImageUpload.tsx)       *)
(* One mounted component per behaviour (chosen in Init).  Every call of    *)
(* uploadFile / handleFileUpload is an invocation; JavaScript runs each    *)
(* synchronous stretch of an invocation to completion (variable running),  *)
(* and invocations interleave only at their awaits.                        *)
(***************************************************************************)
EXTENDS Integers, Sequences, FiniteSets, TLC

VARIABLES
    component,      \* which component is mounted
    props,          \* its props (maxSizeMB, allowImage, allowVideo, path)
    user,           \* session?.user?.id / user?.id seen by the handlers
    img,            \* the image decoded from the file: its native width, height
    now,            \* Date.now()
    running,        \* the invocation executing synchronous code, 0 if none
    inv,            \* the invocations of uploadFile / handleFileUpload
    uploadState,    \* EnhancedImageUpload: useState<UploadState>
    uploading,      \* Fixed/Robust/Simple: useState(false)
    uploadProgress, \* Fixed/Robust/Simple: useState(0)
    uploadError,    \* Fixed/Robust/Simple: useState('')
    uploadSuccess,  \* Fixed/Robust: useState('')
    preview,        \* Fixed/Robust/Simple: previewMedia / previewImage
    timers,         \* how many setTimeout resets are pending
    store,          \* the bucket: storage key -> stored object
    authUsers,      \* server: supabase.auth accounts, id -> user_metadata.role
    kv,             \* server: the key-value store, key -> value
    storage,        \* server: the objects in Supabase storage
    reqs            \* server: the requests received, each at its await

vars == <<component, props, user, img, now, running, inv, uploadState, uploading,
          uploadProgress, uploadError, uploadSuccess, preview, timers, store,
          authUsers, kv, storage, reqs>>

----------------------------------------------------------------------------
\* Bounds of the model.

\* invocations started during one behaviour
MaxInv == 2

----------------------------------------------------------------------------
\* Program constants.

MAX_FILE_SIZE_MB == 10

\* compressImage: const maxDimension = 1920
maxDimension == 1920

\* the bytes of one megabyte, 1024 * 1024
MB == 1024 * 1024

\* validateFile: Object.keys(ALLOWED_FILE_TYPES)
ALLOWED_FILE_TYPES == {"image/jpeg", "image/png", "image/webp", "image/gif"}

\* handleFileUpload of Robust/Simple: validTypes; FixedMediaUpload: imageTypes
imageTypes == {"image/jpeg", "image/jpg", "image/png", "image/gif", "image/webp"}

\* FixedMediaUpload.getAcceptedTypes: videoTypes
videoTypes == {"video/mp4", "video/webm", "video/ogg", "video/quicktime"}

Components == {"Enhanced", "Fixed", "Robust", "Simple"}

NoUser == ""

Users == {NoUser, "u1"}

----------------------------------------------------------------------------
\* Strings are sequences of tokens, so that concatenation, split and
\* substring are computed and not assumed.

\* s.substring(k): the tokens from index k (0-based) on
Substring(s, k) == SubSeq(s, k + 1, Len(s))

\* positions of "." in s
DotPositions(s) == {i \in 1..Len(s) : s[i] = "."}

\* the largest element of a non-empty set of integers
MaxOf(S) == CHOOSE m \in S : \A x \in S : x <= m

\* name.split('.').pop(): what follows the last ".", the whole name if none
SplitPop(name) ==
    IF DotPositions(name) = {} THEN name
    ELSE SubSeq(name, MaxOf(DotPositions(name)) + 1, Len(name))

\* Math.random().toString(36): "0" for 0, else "0." and the base-36 digits
RandomToString36(r) == IF r = <<>> THEN <<"0">> ELSE <<"0", ".">> \o r

\* The values Math.random() returns here, as their base-36 digits: two
\* short fractions (such as 0.5, which prints as "0.i") and one of usual
\* length.
RandomValues ==
    { <<"a">>, <<"b">>, <<"a", "b", "a", "b", "a", "x">> }

----------------------------------------------------------------------------
\* Files offered by the user: name, declared MIME type, byte length.

NoFile == [name |-> <<>>, type |-> "", size |-> 0]

Files ==
    { [name |-> <<"edge", ".", "jpg">>,  type |-> "image/jpeg", size |-> 10 * MB],
      [name |-> <<"notes", ".", "pdf">>, type |-> "application/pdf", size |-> 1024],
      [name |-> <<"over", ".", "jpg">>,  type |-> "image/jpeg", size |-> 10 * MB + 1],
      [name |-> <<"clip", ".", "mov">>,  type |-> "video/mp4",  size |-> 20 * MB],
      [name |-> <<"film", ".", "mp4">>,  type |-> "video/mp4",  size |-> 50 * MB + 1] }

\* the files offered to each component: the image components treat every
\* non-image type alike, and FixedMediaUpload is offered the video files
FilesFor(c) ==
    IF c = "Fixed" THEN {f \in Files : f.name[1] # "edge"}
    ELSE {f \in Files : f.type # "video/mp4"}

----------------------------------------------------------------------------
\* Messages: the template text, the numbers interpolated into it, and the
\* text of an underlying error interpolated into it.

Msg(tmpl, nums, inner) == [tmpl |-> tmpl, nums |-> nums, inner |-> inner]

NoMsg == Msg("", <<>>, "")

\* Number.toFixed(1) of size / (1024 * 1024), in tenths of a megabyte
ToFixed1MB(size) == (size * 10 + MB \div 2) \div MB

----------------------------------------------------------------------------
\* EnhancedImageUpload.validateFile: the error message, NoMsg for null.
\* fileSizeMB > maxSize is size / (1024 * 1024) > maxSize; dividing by a
\* power of two is exact, so it is size > maxSize * 1024 * 1024.

SizeExceeds(size, limitMB) == size > limitMB * MB

validateFile(file, maxSize) ==
    IF file.type \notin ALLOWED_FILE_TYPES
    THEN Msg("Invalid file type. Please upload .jpg, .jpeg, .png, .webp, .gif files only.",
             <<>>, "")
    ELSE IF SizeExceeds(file.size, maxSize)
    THEN Msg("File size too large. Maximum allowed size is {0}MB. Your file is {1}MB.",
             <<maxSize, ToFixed1MB(file.size)>>, "")
    ELSE NoMsg

----------------------------------------------------------------------------
\* Fixed/Robust/Simple: the checks at the head of handleFileUpload.

\* FixedMediaUpload.getMaxSize (maxSizeMB = 0 stands for the unset prop)
getMaxSize(p) ==
    IF p.maxSizeMB # 0 THEN p.maxSizeMB * MB
    ELSE IF p.allowVideo THEN 50 * MB ELSE 10 * MB

\* FixedMediaUpload.getAcceptedTypes
getAcceptedTypes(p) ==
    (IF p.allowImage THEN imageTypes ELSE {}) \cup
    (IF p.allowVideo THEN videoTypes ELSE {})

\* file.type.startsWith('video/'), over the MIME types that occur here
IsVideo(file) ==
    file.type \in {"video/mp4", "video/webm", "video/ogg", "video/quicktime"}

\* the types handleFileUpload accepts
AcceptedTypes(c, p) == IF c = "Fixed" THEN getAcceptedTypes(p) ELSE imageTypes

\* the byte limit handleFileUpload compares file.size with
MaxSizeBytes(c, p) == IF c = "Fixed" THEN getMaxSize(p) ELSE p.maxSizeMB * MB

\* FixedMediaUpload: sizeLimitMB, the limit named in the message
sizeLimitMB(c, p, file) ==
    IF c = "Fixed"
    THEN (IF p.maxSizeMB # 0 THEN p.maxSizeMB ELSE IF IsVideo(file) THEN 50 ELSE 10)
    ELSE p.maxSizeMB

NotLoggedInMsg(c) ==
    IF c = "Fixed" THEN Msg("You must be logged in to upload files", <<>>, "")
    ELSE Msg("You must be logged in to upload images", <<>>, "")

InvalidTypeMsg(c) ==
    IF c = "Fixed" THEN Msg("Please upload a valid file: {description}", <<>>, "")
    ELSE Msg("Please upload a valid image file (JPEG, PNG, GIF, WebP)", <<>>, "")

TooLargeMsg(c, p, file) ==
    Msg("File size must be less than {0}MB", <<sizeLimitMB(c, p, file)>>, "")

NoUrlMsg(c) ==
    IF c = "Fixed" THEN Msg("Failed to get file URL", <<>>, "")
    ELSE Msg("Failed to get image URL", <<>>, "")

----------------------------------------------------------------------------
\* The failure kinds of the specification's taxonomy, read off a message.

Kind(m) ==
    CASE m.tmpl \in {"User not authenticated",
                     "You must be logged in to upload files",
                     "You must be logged in to upload images"} -> "NotAuthenticated"
      [] m.tmpl \in {"Invalid file type. Please upload .jpg, .jpeg, .png, .webp, .gif files only.",
                     "Please upload a valid file: {description}",
                     "Please upload a valid image file (JPEG, PNG, GIF, WebP)"} -> "InvalidType"
      [] m.tmpl \in {"File size too large. Maximum allowed size is {0}MB. Your file is {1}MB.",
                     "File size must be less than {0}MB"} -> "TooLarge"
      [] m.tmpl \in {"Failed to load image", "Failed to get canvas context",
                     "Failed to compress image"} -> "CompressionFailed"
      [] m.tmpl \in {"{inner}", "Upload failed: {inner}",
                     "Failed to upload image. Please try again.",
                     "Failed to upload image",
                     "An unexpected error occurred during upload"} -> "TransportFailed"
      [] m.tmpl \in {"Failed to get file URL", "Failed to get image URL"} -> "UrlResolutionFailed"
      [] OTHER -> "None"

----------------------------------------------------------------------------
\* Storage keys.

\* EnhancedImageUpload: fileName and filePath
EnhancedFilePath(path, file, ts, r) ==
    LET fileExt  == SplitPop(file.name)
        fileName == <<ToString(ts), "-">> \o Substring(RandomToString36(r), 2)
                        \o <<".">> \o fileExt
    IN  IF path # "" THEN <<path, "/">> \o fileName ELSE fileName

\* Fixed/Robust/Simple: fileName
MediaFileName(uid, file, ts, r) ==
    LET fileExtension == SplitPop(file.name)
        randomId      == Substring(RandomToString36(r), 7)
    IN  <<uid, "/", ToString(ts), "-">> \o randomId \o <<".">> \o fileExtension

\* getPublicUrl(path).publicUrl
PublicUrl(key) == <<"https://storage/public/">> \o key

----------------------------------------------------------------------------
\* State.

\* a stored object: the invocation that wrote it, its content type and its
\* byte length
NoObject == [by |-> 0, type |-> "", size |-> 0]

NoMeta ==
    [present |-> FALSE, originalSize |-> 0, compressedSize |-> 0,
     width |-> 0, height |-> 0]

\* useState<UploadState>({ status: 'idle', progress: 0 })
IdleState ==
    [status |-> "idle", progress |-> 0, file |-> NoFile, preview |-> <<>>,
     metadata |-> NoMeta, error |-> NoMsg]

\* An invocation that has not been started.
\*   pc       where the invocation stands
\*   solo     no other invocation was in flight while this one was
\*   own      the last progress value this invocation set, -1 if none
\*   ts, key  the timestamp it read and the storage key it built
\*   uploads  calls of storage.upload;  urls  calls of getPublicUrl
\*   err      the exception on its way to the catch block
\*   outcome  "none", "success", "error" (reported) or "thrown" (the promise
\*            of uploadFile rejected, the exception left the invocation)
\*   msg      the failure message reported or thrown
NoInv ==
    [pc |-> "none", file |-> NoFile, solo |-> TRUE, own |-> -1, ts |-> 0, key |-> <<>>,
     meta |-> NoMeta, uploads |-> 0, urls |-> 0, url |-> <<>>, err |-> NoMsg,
     outcome |-> "none", msg |-> NoMsg, onUpload |-> 0, onError |-> 0]

InvIds == 1..MaxInv

InFlight(i) == inv[i].pc \notin {"none", "done"}

Started(i) == inv[i].pc # "none"

\* the props each component is mounted with (maxSizeMB = 0: prop not given);
\* EnhancedImageUpload as the recipe form mounts it, with path="recipes"
PropsOf(c) ==
    CASE c = "Enhanced" ->
            { [maxSizeMB |-> MAX_FILE_SIZE_MB, allowImage |-> TRUE,
               allowVideo |-> FALSE, path |-> pa] : pa \in {"recipes"} }
      [] c = "Fixed" ->
            { [maxSizeMB |-> m, allowImage |-> ai, allowVideo |-> av, path |-> ""] :
                m \in {0, 5}, ai \in {TRUE}, av \in BOOLEAN }
      [] OTHER ->
            { [maxSizeMB |-> 10, allowImage |-> TRUE, allowVideo |-> FALSE,
               path |-> ""] }

Init ==
    /\ component \in Components
    /\ props \in PropsOf(component)
    /\ user \in Users
    /\ img = [width |-> 800, height |-> 600]
    /\ now = 1
    /\ running = 0
    /\ inv = [i \in InvIds |-> NoInv]
    /\ uploadState = IdleState
    /\ uploading = FALSE
    /\ uploadProgress = 0
    /\ uploadError = NoMsg
    /\ uploadSuccess = ""
    /\ preview = <<>>
    /\ timers = 0
    /\ store = [k \in {} |-> NoObject]
    /\ authUsers = <<>>
    /\ kv = <<>>
    /\ storage = {}
    /\ reqs = <<>>

\* the variables of Fixed/Robust/Simple
mediaVars == <<uploading, uploadProgress, uploadError, uploadSuccess, preview, timers>>

\* the variables of the server
serverVars == <<authUsers, kv, storage, reqs>>

fixedVars == <<component, props, user, img, serverVars>>

\* The millisecond timestamps Date.now() returns here.
Timestamps == {1, 2}

\* Date.now(): any value from the last one read on
DateNow == {t \in Timestamps : t >= now}

----------------------------------------------------------------------------
\* Calling the upload function: a new invocation takes the thread.

Call(f, pc0) ==
    /\ running = 0
    /\ \E i \in InvIds :
        /\ ~Started(i)
        /\ \A j \in InvIds : j < i => Started(j)
        /\ running' = i
        /\ inv' = [j \in InvIds |->
                     IF j = i
                     THEN [NoInv EXCEPT !.pc = pc0, !.file = f,
                                        !.solo = ~(\E k \in InvIds : InFlight(k))]
                     ELSE IF InFlight(j) THEN [inv[j] EXCEPT !.solo = FALSE]
                     ELSE inv[j]]

\* the invocation that runs, at pc
At(i, pc) == running = i /\ inv[i].pc = pc

\* i goes to pc and keeps the thread
Goto(i, pc) == inv' = [inv EXCEPT ![i].pc = pc]

\* What is left of an invocation when its function has returned or thrown:
\* its argument and what it did; the other locals are gone.
Ended(r, outcome, msg) ==
    [r EXCEPT !.pc = "done", !.outcome = outcome, !.msg = msg,
              !.ts = 0, !.key = <<>>, !.meta = NoMeta, !.err = NoMsg, !.url = <<>>]

\* i ends: the thread is free again
Finish(i, outcome, msg) ==
    /\ inv' = [inv EXCEPT ![i] = Ended(@, outcome, msg)]
    /\ running' = 0

----------------------------------------------------------------------------
\* The object store (external): storage.from(bucket).upload(key, body,
\* {upsert}) answers with an error and writes nothing when the key exists
\* and upsert is false, or when the transport fails; getPublicUrl builds
\* the URL of a key.

StoreHas(st, key) == key \in DOMAIN st

StorePut(st, key, obj) == [k \in DOMAIN st \cup {key} |-> IF k = key THEN obj ELSE st[k]]

\* what an upload call may answer: "ok", or the text of an error returned
\* ("error"), or the text of an error thrown ("reject")
UploadAnswers(st, key, upsert) ==
    (IF StoreHas(st, key) /\ ~upsert
     THEN { [how |-> "error", text |-> "The resource already exists"] }
     ELSE { [how |-> "ok", text |-> ""] })
    \cup { [how |-> "error", text |-> "Network request failed"],
           [how |-> "reject", text |-> "Failed to fetch"] }

\* what getPublicUrl(key) may answer: the URL, or none
UrlAnswers(key) == { PublicUrl(key), <<>> }

----------------------------------------------------------------------------
\* EnhancedImageUpload.

\* (mutant) the upload is issued with upsert: true
UpsertEnabled == TRUE

\* upload options of uploadFile: { cacheControl: '3600', upsert: false }
EnhancedUpsert == FALSE

\* handleDrop -> handleFileSelect -> uploadFile(files[0]); disabled is false
Enh_handleDrop(f) ==
    /\ component = "Enhanced"
    /\ Call(f, "auth")
    /\ UNCHANGED <<fixedVars, now, uploadState, mediaVars, store>>

\* handleClick opens the file input unless an upload is shown as running;
\* the input's onChange -> handleFileSelect -> uploadFile(files[0])
Enh_handleClick(f) ==
    /\ component = "Enhanced"
    /\ uploadState.status # "uploading"
    /\ Call(f, "auth")
    /\ UNCHANGED <<fixedVars, now, uploadState, mediaVars, store>>

\* handleReset: the buttons of the success and error views
Enh_handleReset ==
    /\ component = "Enhanced"
    /\ running = 0
    /\ uploadState.status \in {"success", "error"}
    /\ uploadState' = IdleState
    /\ UNCHANGED <<fixedVars, now, running, inv, mediaVars, store>>

\* if (!session?.user?.id) throw new Error('User not authenticated')
uploadFile_auth(i) ==
    /\ At(i, "auth")
    /\ IF user = NoUser
       THEN Finish(i, "thrown", Msg("User not authenticated", <<>>, ""))
       ELSE Goto(i, "validate") /\ UNCHANGED running
    /\ UNCHANGED <<fixedVars, now, uploadState, mediaVars, store>>

\* const validationError = validateFile(file); if (validationError) throw ...
uploadFile_validate(i) ==
    /\ At(i, "validate")
    /\ LET validationError == validateFile(inv[i].file, props.maxSizeMB)
       IN  IF validationError # NoMsg
           THEN Finish(i, "thrown", validationError)
           ELSE Goto(i, "set10") /\ UNCHANGED running
    /\ UNCHANGED <<fixedVars, now, uploadState, mediaVars, store>>

\* setUploadState({ status: 'uploading', progress: 10, file })
uploadFile_set10(i) ==
    /\ At(i, "set10")
    /\ uploadState' = [IdleState EXCEPT !.status = "uploading", !.progress = 10,
                                        !.file = inv[i].file]
    /\ inv' = [inv EXCEPT ![i].pc = "set30", ![i].own = 10]
    /\ UNCHANGED <<fixedVars, now, running, mediaVars, store>>

\* setUploadState(prev => ({ ...prev, progress: 30 })); await compressImage(file)
uploadFile_set30(i) ==
    /\ At(i, "set30")
    /\ uploadState' = [uploadState EXCEPT !.progress = 30]
    /\ inv' = [inv EXCEPT ![i].pc = "awaitCompress", ![i].own = 30]
    /\ running' = 0
    /\ UNCHANGED <<fixedVars, now, mediaVars, store>>

\* the larger of two numbers
MaxNum(a, b) == IF a >= b THEN a ELSE b

\* compressImage: a *= ratio with ratio = maxDimension / m, then
\* canvas.width = a, which drops the fraction.  The product is computed in
\* floating point: when a * maxDimension / m is a whole number the result
\* may lie one unit in the last place below it (2148 * (1920 / 2148) is
\* 1919.9999999999998), and then the canvas gets one pixel less.
Truncated(a, m) ==
    LET p == a * maxDimension
    IN  IF p % m = 0 THEN {p \div m, p \div m - 1} ELSE {p \div m}

\* (mutant) the image is scaled to the cap whatever its size
canvasSizes_AlwaysScales(w, h) ==
    { [width |-> cw, height |-> ch] :
        cw \in Truncated(w, MaxNum(w, h)), ch \in Truncated(h, MaxNum(w, h)) }

\* compressImage, img.onload: the sizes the canvas may get for an image of
\* w x h pixels
canvasSizes(w, h) ==
    IF w > maxDimension \/ h > maxDimension
    THEN { [width |-> cw, height |-> ch] :
             cw \in Truncated(w, MaxNum(w, h)), ch \in Truncated(h, MaxNum(w, h)) }
    ELSE { [width |-> w, height |-> h] }

\* compressImage: the promise resolves with the compressed file and its
\* metadata, or rejects (img.onerror, no 2d context, toBlob gave no blob);
\* a canvas without pixels gives no blob.  The dimensions kept here are the
\* ones of the canvas, that is, of the compressed image.
compressImageResults(file) ==
    { [ok |-> TRUE, err |-> NoMsg,
       meta |-> [present |-> TRUE, originalSize |-> file.size,
                 compressedSize |-> file.size \div 2,
                 width |-> c.width, height |-> c.height]] :
         c \in {cs \in canvasSizes(img.width, img.height) :
                   cs.width > 0 /\ cs.height > 0} }
    \cup
    { [ok |-> FALSE, err |-> Msg(t, <<>>, ""), meta |-> NoMeta] :
         t \in {"Failed to load image", "Failed to get canvas context",
                "Failed to compress image"} }

\* (mutant) when compressImage rejects, the original file is uploaded
uploadFile_compressed_FallsBack(i, res) ==
    /\ running = 0
    /\ inv[i].pc = "awaitCompress"
    /\ res \in compressImageResults(inv[i].file)
    /\ running' = i
    /\ inv' = IF res.ok
              THEN [inv EXCEPT ![i].pc = "set50", ![i].meta = res.meta]
              ELSE [inv EXCEPT ![i].pc = "set50",
                      ![i].meta = [NoMeta EXCEPT !.originalSize = inv[i].file.size,
                                                 !.compressedSize = inv[i].file.size]]
    /\ UNCHANGED <<fixedVars, now, uploadState, mediaVars, store>>

\* the await of compressImage returns or throws into the catch block
uploadFile_compressed(i, res) ==
    /\ running = 0
    /\ inv[i].pc = "awaitCompress"
    /\ res \in compressImageResults(inv[i].file)
    /\ running' = i
    /\ inv' = IF res.ok
              THEN [inv EXCEPT ![i].pc = "set50", ![i].meta = res.meta]
              ELSE [inv EXCEPT ![i].pc = "catch", ![i].err = res.err]
    /\ UNCHANGED <<fixedVars, now, uploadState, mediaVars, store>>

\* setUploadState(prev => ({ ...prev, progress: 50, metadata }))
uploadFile_set50(i) ==
    /\ At(i, "set50")
    /\ uploadState' = [uploadState EXCEPT !.progress = 50, !.metadata = inv[i].meta]
    /\ inv' = [inv EXCEPT ![i].pc = "genKey", ![i].own = 50]
    /\ UNCHANGED <<fixedVars, now, running, mediaVars, store>>

\* fileExt, fileName, filePath
uploadFile_genKey(i) ==
    /\ At(i, "genKey")
    /\ \E t \in DateNow, r \in RandomValues :
         /\ now' = t
         /\ inv' = [inv EXCEPT ![i].pc = "set70", ![i].ts = t,
                               ![i].key = EnhancedFilePath(props.path, inv[i].file, t, r)]
    /\ UNCHANGED <<fixedVars, running, uploadState, mediaVars, store>>

\* setUploadState(prev => ({ ...prev, progress: 70 }));
\* await supabase.storage.from(bucket).upload(filePath, compressedFile, ...)
uploadFile_set70(i) ==
    /\ At(i, "set70")
    /\ uploadState' = [uploadState EXCEPT !.progress = 70]
    /\ inv' = [inv EXCEPT ![i].pc = "awaitUpload", ![i].own = 70,
                          ![i].uploads = @ + 1]
    /\ running' = 0
    /\ UNCHANGED <<fixedVars, now, mediaVars, store>>

\* (mutant) the error of the upload call is not looked at
uploadFile_uploaded_IgnoresError(i, ans) ==
    /\ running = 0
    /\ component = "Enhanced"
    /\ inv[i].pc = "awaitUpload"
    /\ ans \in UploadAnswers(store, inv[i].key, EnhancedUpsert)
    /\ running' = i
    /\ store' = IF ans.how = "ok"
                THEN StorePut(store, inv[i].key,
                              [by |-> i, type |-> inv[i].file.type,
                               size |-> inv[i].meta.compressedSize])
                ELSE store
    /\ Goto(i, "set90")
    /\ UNCHANGED <<fixedVars, now, uploadState, mediaVars>>

\* the await of upload returns { data, error } or throws;
\* if (error) throw error
uploadFile_uploaded(i, ans) ==
    /\ running = 0
    /\ component = "Enhanced"
    /\ inv[i].pc = "awaitUpload"
    /\ ans \in UploadAnswers(store, inv[i].key, EnhancedUpsert)
    /\ running' = i
    /\ IF ans.how = "ok"
       THEN /\ store' = StorePut(store, inv[i].key,
                                 [by |-> i, type |-> inv[i].file.type,
                                  size |-> inv[i].meta.compressedSize])
            /\ Goto(i, "set90")
       ELSE /\ store' = store
            /\ inv' = [inv EXCEPT ![i].pc = "catch",
                                  ![i].err = Msg("{inner}", <<>>, ans.text)]
    /\ UNCHANGED <<fixedVars, now, uploadState, mediaVars>>

\* setUploadState(prev => ({ ...prev, progress: 90 }))
uploadFile_set90(i) ==
    /\ At(i, "set90")
    /\ uploadState' = [uploadState EXCEPT !.progress = 90]
    /\ inv' = [inv EXCEPT ![i].pc = "getUrl", ![i].own = 90]
    /\ UNCHANGED <<fixedVars, now, running, mediaVars, store>>

\* const { data: { publicUrl } } = ...getPublicUrl(data.path)
uploadFile_getPublicUrl(i) ==
    /\ At(i, "getUrl")
    /\ \E u \in UrlAnswers(inv[i].key) :
         inv' = [inv EXCEPT ![i].pc = "setSuccess", ![i].url = u, ![i].urls = @ + 1]
    /\ UNCHANGED <<fixedVars, now, running, uploadState, mediaVars, store>>

\* setUploadState(prev => ({ ...prev, status: 'success', progress: 100,
\*                           preview: publicUrl }))
uploadFile_setSuccess(i) ==
    /\ At(i, "setSuccess")
    /\ uploadState' = [uploadState EXCEPT !.status = "success", !.progress = 100,
                                          !.preview = inv[i].url]
    /\ inv' = [inv EXCEPT ![i].pc = "onUpload", ![i].own = 100]
    /\ UNCHANGED <<fixedVars, now, running, mediaVars, store>>

\* onUpload(publicUrl, metadata); the function returns
uploadFile_onUpload(i) ==
    /\ At(i, "onUpload")
    /\ inv' = [inv EXCEPT ![i] = Ended([@ EXCEPT !.onUpload = @ + 1], "success", NoMsg)]
    /\ running' = 0
    /\ UNCHANGED <<fixedVars, now, uploadState, mediaVars, store>>

\* (mutant) the catch block also resets the progress
uploadFile_catch_ResetsProgress(i) ==
    /\ At(i, "catch")
    /\ uploadState' = [uploadState EXCEPT !.status = "error", !.progress = 0,
                                          !.error = inv[i].err]
    /\ inv' = [inv EXCEPT ![i].pc = "onError", ![i].msg = inv[i].err]
    /\ UNCHANGED <<fixedVars, now, running, mediaVars, store>>

\* (mutant) the catch block tries a failed upload again
uploadFile_catch_Retries(i) ==
    /\ At(i, "catch")
    /\ IF inv[i].uploads > 0
       THEN /\ inv' = [inv EXCEPT ![i].pc = "set70", ![i].err = NoMsg]
            /\ UNCHANGED uploadState
       ELSE /\ uploadState' = [uploadState EXCEPT !.status = "error",
                                                  !.error = inv[i].err]
            /\ inv' = [inv EXCEPT ![i].pc = "onError", ![i].msg = inv[i].err]
    /\ UNCHANGED <<fixedVars, now, running, mediaVars, store>>

\* catch: errorMessage = error.message || 'Failed to upload image';
\* setUploadState(prev => ({ ...prev, status: 'error', error: errorMessage }))
uploadFile_catch(i) ==
    /\ At(i, "catch")
    /\ LET errorMessage == IF inv[i].err.tmpl = "{inner}" /\ inv[i].err.inner = ""
                           THEN Msg("Failed to upload image", <<>>, "")
                           ELSE inv[i].err
       IN  /\ uploadState' = [uploadState EXCEPT !.status = "error",
                                                 !.error = errorMessage]
           /\ inv' = [inv EXCEPT ![i].pc = "onError", ![i].msg = errorMessage]
    /\ UNCHANGED <<fixedVars, now, running, mediaVars, store>>

\* onError?.(errorMessage); the function returns
uploadFile_onError(i) ==
    /\ At(i, "onError")
    /\ inv' = [inv EXCEPT ![i] = Ended([@ EXCEPT !.onError = @ + 1], "error", @.msg)]
    /\ running' = 0
    /\ UNCHANGED <<fixedVars, now, uploadState, mediaVars, store>>

EnhancedNext ==
    \/ \E f \in FilesFor("Enhanced") : Enh_handleDrop(f)
    \/ \E f \in FilesFor("Enhanced") : Enh_handleClick(f)
    \/ Enh_handleReset
    \/ \E i \in InvIds : uploadFile_auth(i)
    \/ \E i \in InvIds : uploadFile_validate(i)
    \/ \E i \in InvIds : uploadFile_set10(i)
    \/ \E i \in InvIds : uploadFile_set30(i)
    \/ \E i \in InvIds : \E res \in compressImageResults(inv[i].file) :
            uploadFile_compressed(i, res)
    \/ \E i \in InvIds : uploadFile_set50(i)
    \/ \E i \in InvIds : uploadFile_genKey(i)
    \/ \E i \in InvIds : uploadFile_set70(i)
    \/ \E i \in InvIds : \E ans \in UploadAnswers(store, inv[i].key, EnhancedUpsert) :
            uploadFile_uploaded(i, ans)
    \/ \E i \in InvIds : uploadFile_set90(i)
    \/ \E i \in InvIds : uploadFile_getPublicUrl(i)
    \/ \E i \in InvIds : uploadFile_setSuccess(i)
    \/ \E i \in InvIds : uploadFile_onUpload(i)
    \/ \E i \in InvIds : uploadFile_catch(i)
    \/ \E i \in InvIds : uploadFile_onError(i)

----------------------------------------------------------------------------
\* FixedMediaUpload, RobustImageUpload, SimpleImageUpload: handleFileUpload.

IsMedia == component \in {"Fixed", "Robust", "Simple"}

\* upload options of handleFileUpload: { contentType, cacheControl, upsert: false }
MediaUpsert == FALSE

\* the values of setUploadProgress before the upload call, and after it
ProgressBefore1(c) == IF c = "Fixed" THEN 20 ELSE 30

ProgressBefore2(c) == IF c = "Fixed" THEN 40 ELSE 50

ProgressAfter(c) == IF c = "Fixed" THEN 95 ELSE 90

\* the file input's onChange -> handleFileSelect -> handleFileUpload(file);
\* the input is rendered while there is no preview, and Fixed/Robust
\* disable it while uploading
Med_handleFileSelect(f) ==
    /\ IsMedia
    /\ preview = <<>>
    /\ component \in {"Fixed", "Robust"} => ~uploading
    /\ Call(f, "m_auth")
    /\ UNCHANGED <<fixedVars, now, uploadState, mediaVars, store>>

\* onDrop -> handleDrop -> handleFileUpload(file); the drop zone is rendered
\* while there is no preview
Med_handleDrop(f) ==
    /\ IsMedia
    /\ preview = <<>>
    /\ Call(f, "m_auth")
    /\ UNCHANGED <<fixedVars, now, uploadState, mediaVars, store>>

\* handleRemoveMedia / handleRemoveImage: the button over the preview,
\* disabled by Fixed/Robust while uploading
Med_handleRemove ==
    /\ IsMedia
    /\ running = 0
    /\ preview # <<>>
    /\ component \in {"Fixed", "Robust"} => ~uploading
    /\ preview' = <<>>
    /\ uploadError' = IF component = "Simple" THEN uploadError ELSE NoMsg
    /\ uploadSuccess' = ""
    /\ UNCHANGED <<fixedVars, now, running, inv, uploadState, uploading,
                   uploadProgress, timers, store>>

\* setUploadError(m); return   (before the try block: no finally)
ReturnError(i, m) ==
    /\ uploadError' = m
    /\ Finish(i, "error", m)
    /\ UNCHANGED <<fixedVars, now, uploadState, uploading, uploadProgress,
                   uploadSuccess, preview, timers, store>>

\* (mutant) handleFileUpload does not look at the user
handleFileUpload_auth_NoCheck(i) ==
    /\ At(i, "m_auth")
    /\ Goto(i, "m_type")
    /\ UNCHANGED <<fixedVars, now, running, uploadState, mediaVars, store>>

\* if (!user) { setUploadError(...); return }
handleFileUpload_auth(i) ==
    /\ At(i, "m_auth")
    /\ IF user = NoUser
       THEN ReturnError(i, NotLoggedInMsg(component))
       ELSE /\ Goto(i, "m_type")
            /\ UNCHANGED <<fixedVars, now, running, uploadState, mediaVars, store>>

\* if (!acceptedTypes.includes(file.type)) { setUploadError(...); return }
handleFileUpload_type(i) ==
    /\ At(i, "m_type")
    /\ IF inv[i].file.type \notin AcceptedTypes(component, props)
       THEN ReturnError(i, InvalidTypeMsg(component))
       ELSE /\ Goto(i, "m_size")
            /\ UNCHANGED <<fixedVars, now, running, uploadState, mediaVars, store>>

\* if (file.size > maxSize) { setUploadError(...); return }
handleFileUpload_size(i) ==
    /\ At(i, "m_size")
    /\ IF inv[i].file.size > MaxSizeBytes(component, props)
       THEN ReturnError(i, TooLargeMsg(component, props, inv[i].file))
       ELSE /\ Goto(i, "m_begin")
            /\ UNCHANGED <<fixedVars, now, running, uploadState, mediaVars, store>>

\* setUploading(true); setUploadError(''); setUploadSuccess(''); setUploadProgress(0)
handleFileUpload_begin(i) ==
    /\ At(i, "m_begin")
    /\ uploading' = TRUE
    /\ uploadError' = NoMsg
    /\ uploadSuccess' = ""
    /\ uploadProgress' = 0
    /\ inv' = [inv EXCEPT ![i].own = 0,
                          ![i].pc = IF component = "Simple" THEN "m_p1" ELSE "m_genKey"]
    /\ UNCHANGED <<fixedVars, now, running, uploadState, preview, timers, store>>

\* fileExtension, timestamp, randomId, fileName
handleFileUpload_genKey(i) ==
    /\ At(i, "m_genKey")
    /\ \E t \in DateNow, r \in RandomValues :
         /\ now' = t
         /\ inv' = [inv EXCEPT ![i].key = MediaFileName(user, inv[i].file, t, r),
                               ![i].ts = t,
                               ![i].pc = IF component = "Simple" THEN "m_p2" ELSE "m_p1"]
    /\ UNCHANGED <<fixedVars, running, uploadState, mediaVars, store>>

\* setUploadProgress(20) in Fixed, setUploadProgress(30) in Robust and Simple
handleFileUpload_progress1(i) ==
    /\ At(i, "m_p1")
    /\ uploadProgress' = ProgressBefore1(component)
    /\ inv' = [inv EXCEPT ![i].own = ProgressBefore1(component),
                          ![i].pc = IF component = "Simple" THEN "m_genKey" ELSE "m_p2"]
    /\ UNCHANGED <<fixedVars, now, running, uploadState, uploading, uploadError,
                   uploadSuccess, preview, timers, store>>

\* setUploadProgress(40) in Fixed, setUploadProgress(50) in Robust and Simple;
\* await supabase.storage.from(bucketName).upload(fileName, file, ...)
handleFileUpload_progress2(i) ==
    /\ At(i, "m_p2")
    /\ uploadProgress' = ProgressBefore2(component)
    /\ inv' = [inv EXCEPT ![i].own = ProgressBefore2(component),
                          ![i].pc = "m_awaitUpload", ![i].uploads = @ + 1]
    /\ running' = 0
    /\ UNCHANGED <<fixedVars, now, uploadState, uploading, uploadError,
                   uploadSuccess, preview, timers, store>>

\* (mutant) the file is re-encoded before it is uploaded
handleFileUpload_uploaded_Reencodes(i, ans) ==
    /\ running = 0
    /\ IsMedia
    /\ inv[i].pc = "m_awaitUpload"
    /\ ans \in UploadAnswers(store, inv[i].key, MediaUpsert)
    /\ running' = i
    /\ store' = IF ans.how = "ok"
                THEN StorePut(store, inv[i].key,
                              [by |-> i, type |-> inv[i].file.type,
                               size |-> inv[i].file.size \div 2])
                ELSE store
    /\ inv' = IF ans.how = "ok"
              THEN [inv EXCEPT ![i].pc = "m_p3"]
              ELSE [inv EXCEPT ![i].pc = "m_catch",
                               ![i].err = Msg("Upload failed: {inner}", <<>>, ans.text)]
    /\ UNCHANGED <<fixedVars, now, uploadState, mediaVars>>

\* the await of upload returns { data, error: uploadError } or throws.
\* Fixed/Robust: if (uploadError) throw new Error(`Upload failed: ${...}`);
\* Simple goes on to setUploadProgress(90) with the answer in hand.
handleFileUpload_uploaded(i, ans) ==
    /\ running = 0
    /\ IsMedia
    /\ inv[i].pc = "m_awaitUpload"
    /\ ans \in UploadAnswers(store, inv[i].key, MediaUpsert)
    /\ running' = i
    /\ store' = IF ans.how = "ok"
                THEN StorePut(store, inv[i].key,
                              [by |-> i, type |-> inv[i].file.type,
                               size |-> inv[i].file.size])
                ELSE store
    /\ inv' =
         IF ans.how = "reject"
         THEN [inv EXCEPT ![i].pc = "m_catch",
                 ![i].err = IF component = "Simple"
                            THEN Msg("An unexpected error occurred during upload", <<>>, "")
                            ELSE Msg("{inner}", <<>>, ans.text)]
         ELSE IF ans.how = "error" /\ component # "Simple"
         THEN [inv EXCEPT ![i].pc = "m_catch",
                          ![i].err = Msg("Upload failed: {inner}", <<>>, ans.text)]
         ELSE IF ans.how = "error"
         THEN [inv EXCEPT ![i].pc = "m_p3",
                          ![i].err = Msg("Failed to upload image. Please try again.",
                                         <<>>, "")]
         ELSE [inv EXCEPT ![i].pc = "m_p3"]
    /\ UNCHANGED <<fixedVars, now, uploadState, mediaVars>>

\* setUploadProgress(95) in Fixed, setUploadProgress(90) in Robust and Simple;
\* Simple then: if (uploadError) { setUploadError(...); return }
handleFileUpload_progress3(i) ==
    /\ At(i, "m_p3")
    /\ uploadProgress' = ProgressAfter(component)
    /\ inv' = [inv EXCEPT ![i].own = ProgressAfter(component),
                          ![i].pc = IF inv[i].err # NoMsg THEN "m_catch" ELSE "m_getUrl"]
    /\ UNCHANGED <<fixedVars, now, running, uploadState, uploading, uploadError,
                   uploadSuccess, preview, timers, store>>

\* const { data: urlData } = ...getPublicUrl(fileName);
\* Fixed/Robust: if (!urlData?.publicUrl) throw new Error('Failed to get ... URL');
\* Simple: else { setUploadError('Failed to get image URL') }
handleFileUpload_getPublicUrl(i) ==
    /\ At(i, "m_getUrl")
    /\ \E u \in UrlAnswers(inv[i].key) :
         inv' = [inv EXCEPT ![i].urls = @ + 1, ![i].url = u,
                            ![i].err = IF u = <<>> THEN NoUrlMsg(component) ELSE NoMsg,
                            ![i].pc = IF u = <<>> THEN "m_catch" ELSE "m_p4"]
    /\ UNCHANGED <<fixedVars, now, running, uploadState, mediaVars, store>>

\* setUploadProgress(100)
handleFileUpload_progress4(i) ==
    /\ At(i, "m_p4")
    /\ uploadProgress' = 100
    /\ inv' = [inv EXCEPT ![i].own = 100, ![i].pc = "m_deliver"]
    /\ UNCHANGED <<fixedVars, now, running, uploadState, uploading, uploadError,
                   uploadSuccess, preview, timers, store>>

\* setPreviewMedia(url); onMediaChange(url, fileType);
\* Fixed/Robust: setUploadSuccess('... uploaded successfully!')
handleFileUpload_deliver(i) ==
    /\ At(i, "m_deliver")
    /\ preview' = inv[i].url
    /\ uploadSuccess' = CASE component = "Fixed" -> "File uploaded successfully!"
                          [] component = "Robust" -> "Image uploaded successfully!"
                          [] OTHER -> uploadSuccess
    /\ inv' = [inv EXCEPT ![i].onUpload = @ + 1, ![i].pc = "m_finally"]
    /\ UNCHANGED <<fixedVars, now, running, uploadState, uploading, uploadProgress,
                   uploadError, timers, store>>

\* (mutant) the catch block removes the object the invocation has written
handleFileUpload_catch_RemovesObject(i) ==
    /\ At(i, "m_catch")
    /\ uploadError' = inv[i].err
    /\ inv' = [inv EXCEPT ![i].msg = inv[i].err, ![i].pc = "m_finally"]
    /\ store' = [k \in {x \in DOMAIN store : store[x].by # i} |-> store[k]]
    /\ UNCHANGED <<fixedVars, now, running, uploadState, uploading, uploadProgress,
                   uploadSuccess, preview, timers>>

\* the error paths inside the try block: setUploadError(message)
handleFileUpload_catch(i) ==
    /\ At(i, "m_catch")
    /\ uploadError' = inv[i].err
    /\ inv' = [inv EXCEPT ![i].msg = inv[i].err, ![i].pc = "m_finally"]
    /\ UNCHANGED <<fixedVars, now, running, uploadState, uploading, uploadProgress,
                   uploadSuccess, preview, timers, store>>

\* finally { setUploading(false); setTimeout(() => {...}, 1000) }
handleFileUpload_finally(i) ==
    /\ At(i, "m_finally")
    /\ uploading' = FALSE
    /\ timers' = timers + 1
    /\ inv' = [inv EXCEPT ![i] = Ended(@, IF @.msg = NoMsg THEN "success" ELSE "error",
                                       @.msg)]
    /\ running' = 0
    /\ UNCHANGED <<fixedVars, now, uploadState, uploadProgress, uploadError,
                   uploadSuccess, preview, store>>

\* the deferred callback: setUploadProgress(0); Fixed/Robust: setUploadSuccess('')
handleFileUpload_timeout ==
    /\ running = 0
    /\ timers > 0
    /\ timers' = timers - 1
    /\ uploadProgress' = 0
    /\ uploadSuccess' = ""
    /\ UNCHANGED <<fixedVars, now, running, inv, uploadState, uploading,
                   uploadError, preview, store>>

MediaNext ==
    \/ \E f \in FilesFor(component) : Med_handleFileSelect(f)
    \/ \E f \in FilesFor(component) : Med_handleDrop(f)
    \/ Med_handleRemove
    \/ \E i \in InvIds : handleFileUpload_auth(i)
    \/ \E i \in InvIds : handleFileUpload_type(i)
    \/ \E i \in InvIds : handleFileUpload_size(i)
    \/ \E i \in InvIds : handleFileUpload_begin(i)
    \/ \E i \in InvIds : handleFileUpload_genKey(i)
    \/ \E i \in InvIds : handleFileUpload_progress1(i)
    \/ \E i \in InvIds : handleFileUpload_progress2(i)
    \/ \E i \in InvIds : \E ans \in UploadAnswers(store, inv[i].key, MediaUpsert) :
            handleFileUpload_uploaded(i, ans)
    \/ \E i \in InvIds : handleFileUpload_progress3(i)
    \/ \E i \in InvIds : handleFileUpload_getPublicUrl(i)
    \/ \E i \in InvIds : handleFileUpload_progress4(i)
    \/ \E i \in InvIds : handleFileUpload_deliver(i)
    \/ \E i \in InvIds : handleFileUpload_catch(i)
    \/ \E i \in InvIds : handleFileUpload_finally(i)
    \/ handleFileUpload_timeout

Next == EnhancedNext \/ MediaNext

Spec == Init /\ [][Next]_vars

----------------------------------------------------------------------------
\* EnhancedImageUpload with one signed-in user and one call of uploadFile,
\* over images of many sizes: the behaviours in which compressImage is
\* looked at.

\* native widths and heights of the images: small, at the cap of 1920,
\* just above it and well above it
Dimensions == {1, 50, 1080, 1920, 1921, 2148, 3840}

DimInit ==
    /\ component = "Enhanced"
    /\ props \in PropsOf("Enhanced")
    /\ user = "u1"
    /\ img \in [width : Dimensions, height : Dimensions]
    /\ now = 1
    /\ running = 0
    /\ inv = [i \in InvIds |-> NoInv]
    /\ uploadState = IdleState
    /\ uploading = FALSE
    /\ uploadProgress = 0
    /\ uploadError = NoMsg
    /\ uploadSuccess = ""
    /\ preview = <<>>
    /\ timers = 0
    /\ store = [k \in {} |-> NoObject]
    /\ authUsers = <<>>
    /\ kv = <<>>
    /\ storage = {}
    /\ reqs = <<>>

DimNext ==
    \/ \E f \in FilesFor("Enhanced") : ~Started(1) /\ Enh_handleDrop(f)
    \/ uploadFile_auth(1)
    \/ uploadFile_validate(1)
    \/ uploadFile_set10(1)
    \/ uploadFile_set30(1)
    \/ \E res \in compressImageResults(inv[1].file) : uploadFile_compressed(1, res)
    \/ uploadFile_set50(1)
    \/ uploadFile_genKey(1)
    \/ uploadFile_set70(1)
    \/ \E ans \in UploadAnswers(store, inv[1].key, EnhancedUpsert) :
            uploadFile_uploaded(1, ans)
    \/ uploadFile_set90(1)
    \/ uploadFile_getPublicUrl(1)
    \/ uploadFile_setSuccess(1)
    \/ uploadFile_onUpload(1)
    \/ uploadFile_catch(1)
    \/ uploadFile_onError(1)

DimSpec == DimInit /\ [][DimNext]_vars

----------------------------------------------------------------------------
\* The server: the Hono routes over Supabase auth, Supabase storage and the
\* key-value store.  A request runs to its next await in one step; requests
\* interleave at the awaits.  The calls of the kv store answer without error.

\* the requests the server receives
MaxReq == 2

ReqIds == 1..MaxReq

\* the accounts (the ids supabase.auth gives to the e-mail addresses)
Accounts == {"u1", "u2"}

NoToken == <<>>

BadToken == <<"tok", "?">>

TokenOf(u) == <<"tok", u>>

NoRole == ""

ValidRoles == {"student", "instructor", "admin"}

\* crypto.randomUUID(): a different id on every call
UUIDs == <<"id1", "id2", "id3", "id4", "id5">>

randomUUID(r) == UUIDs[r]

StartsWith(s, p) == Len(s) >= Len(p) /\ SubSeq(s, 1, Len(p)) = p

\* `${user.id}/`
OwnPrefix(u) == <<u, "/">>

FileNames == { <<>>, <<"u1", "/", "a">>, <<"u2", "/", "a">> }

Buckets == {"", "media"}

NoReq ==
    [route |-> "", token |-> NoToken, body |-> <<>>, pc |-> "none",
     user |-> NoUser, local |-> <<>>, role |-> NoRole, status |-> 0,
     calls |-> {}, response |-> {}]

\* the profile record the signup route stores under user:{id}
Profile(id, role) == [id |-> id, role |-> role, name |-> "Cook"]

\* the accounts signed up before, each with the profile its signup stored
ServerInit ==
    /\ component = "Enhanced"
    /\ props \in PropsOf("Enhanced")
    /\ user = NoUser
    /\ img = [width |-> 800, height |-> 600]
    /\ now = 1
    /\ running = 0
    /\ inv = [i \in InvIds |-> NoInv]
    /\ uploadState = IdleState
    /\ uploading = FALSE
    /\ uploadProgress = 0
    /\ uploadError = NoMsg
    /\ uploadSuccess = ""
    /\ preview = <<>>
    /\ timers = 0
    /\ store = [k \in {} |-> NoObject]
    /\ \E signedUp \in SUBSET {"u1"} : authUsers \in [signedUp -> ValidRoles]
    /\ kv = [k \in { <<"user", u>> : u \in DOMAIN authUsers } |->
                Profile(k[2], authUsers[k[2]])]
    /\ storage = { <<"media", f>> : f \in FileNames \ {<<>>} }
    /\ reqs = [r \in ReqIds |-> NoReq]

clientVars == <<component, props, user, img, now, running, inv, uploadState,
                uploading, uploadProgress, uploadError, uploadSuccess, preview,
                timers, store>>

Routes == {"signup", "putProfile", "postRecipes", "myRecipes", "postResources",
           "adminUsers", "deleteFile"}

\* the JSON bodies sent to a route
Bodies(route) ==
    CASE route = "signup" ->
            [account : Accounts,
             role : {NoRole, "admin", "chef"},
             complete : {TRUE}]
            \cup { [account |-> "u1", role |-> NoRole, complete |-> FALSE] }
      [] route = "putProfile" ->
            { [f \in {"name"} |-> "Chef"], [f \in {"role"} |-> "admin"],
              [f \in {"id"} |-> "u2"] }
      [] route = "deleteFile" ->
            [fileName : FileNames \ {<<>>}, bucket : {"media"}]
            \cup { [fileName |-> <<>>, bucket |-> "media"],
                   [fileName |-> <<"u2", "/", "a">>, bucket |-> ""] }
      [] OTHER -> { <<>> }

\* The requests sent to a route, <<Authorization token, body>>: with no token,
\* with a token supabase.auth does not know, with the token of a signed-in
\* account.  The handlers never read the body of a request they do not
\* authenticate, so one body stands for all of them.
Inputs(route) ==
    IF route = "signup" THEN {NoToken} \X Bodies(route)
    ELSE ({NoToken, BadToken} \X {CHOOSE b \in Bodies(route) : TRUE})
         \cup ({TokenOf(u) : u \in DOMAIN authUsers} \X Bodies(route))

AtRoute(r, route, pc) == reqs[r].route = route /\ reqs[r].pc = pc

Step(r, pc, u, local) ==
    [reqs EXCEPT ![r].pc = pc, ![r].user = u, ![r].local = local]

\* return c.json(..., status)
Respond(r, status, response) ==
    [reqs EXCEPT ![r].pc = "done", ![r].status = status, ![r].local = <<>>,
                 ![r].token = NoToken, ![r].response = response]

Called(rs, r, call) == [rs EXCEPT ![r].calls = @ \cup {call}]

kvHas(k) == k \in DOMAIN kv

kvSet(k, v) == [x \in DOMAIN kv \cup {k} |-> IF x = k THEN v ELSE kv[x]]

\* kv.getByPrefix
kvGetByPrefix(prefix) == { k \in DOMAIN kv : k[1] = prefix }

Receive(r, route, token, body) ==
    /\ reqs[r].pc = "none"
    /\ \A q \in ReqIds : q < r => reqs[q].pc # "none"
    /\ reqs' = [reqs EXCEPT ![r] = [route |-> route, token |-> token,
                    body |-> body, pc |-> "received", user |-> NoUser,
                    local |-> <<>>, role |-> NoRole, status |-> 0,
                    calls |-> {}, response |-> {}]]
    /\ UNCHANGED <<clientVars, authUsers, kv, storage>>

\* supabase.auth.getUser(accessToken)
authGetUser(token) ==
    IF \E u \in DOMAIN authUsers : token = TokenOf(u)
    THEN CHOOSE u \in DOMAIN authUsers : token = TokenOf(u)
    ELSE NoUser

getUserFromToken(r) ==
    /\ reqs[r].pc = "received"
    /\ reqs[r].route # "signup"
    /\ LET u == IF reqs[r].token = NoToken THEN NoUser
                ELSE authGetUser(reqs[r].token)
       IN  reqs' = IF u = NoUser THEN Respond(r, 401, {})
                   ELSE Step(r, "authed", u, <<>>)
    /\ UNCHANGED <<clientVars, authUsers, kv, storage>>

Signup_createUser(r) ==
    /\ AtRoute(r, "signup", "received")
    /\ LET b == reqs[r].body
           role == IF b.role = NoRole THEN "student" ELSE b.role
       IN  IF ~b.complete \/ role \notin ValidRoles
                \/ b.account \in DOMAIN authUsers
           THEN /\ reqs' = Respond(r, 400, {})
                /\ UNCHANGED authUsers
           ELSE /\ authUsers' = [u \in DOMAIN authUsers \cup {b.account} |->
                                   IF u = b.account THEN role ELSE authUsers[u]]
                /\ reqs' = Step(r, "setProfile", b.account, role)
    /\ UNCHANGED <<clientVars, kv, storage>>

Signup_setProfile(r) ==
    /\ AtRoute(r, "signup", "setProfile")
    /\ kv' = kvSet(<<"user", reqs[r].user>>,
                   Profile(reqs[r].user, reqs[r].local))
    /\ reqs' = Called(Respond(r, 200, {}), r, "kv.set")
    /\ UNCHANGED <<clientVars, authUsers, storage>>

PutProfile_get(r) ==
    /\ AtRoute(r, "putProfile", "authed")
    /\ LET k == <<"user", reqs[r].user>>
       IN  reqs' = IF kvHas(k) THEN Step(r, "set", reqs[r].user, kv[k])
                   ELSE Respond(r, 404, {})
    /\ UNCHANGED <<clientVars, authUsers, kv, storage>>

\* { ...currentProfile, ...updates }
Spread(currentProfile, updates) ==
    [f \in DOMAIN currentProfile \cup DOMAIN updates |->
        IF f \in DOMAIN updates THEN updates[f] ELSE currentProfile[f]]

PutProfile_set(r) ==
    /\ AtRoute(r, "putProfile", "set")
    /\ kv' = kvSet(<<"user", reqs[r].user>>,
                   Spread(reqs[r].local, reqs[r].body))
    /\ reqs' = Called(Respond(r, 200, {}), r, "kv.set")
    /\ UNCHANGED <<clientVars, authUsers, storage>>

PostRecipes_setRecipe(r) ==
    /\ AtRoute(r, "postRecipes", "authed")
    /\ kv' = kvSet(<<"recipe", randomUUID(r)>>,
                   [id |-> randomUUID(r), author_id |-> reqs[r].user])
    /\ reqs' = Called(Step(r, "getList", reqs[r].user, <<>>), r, "kv.set")
    /\ UNCHANGED <<clientVars, authUsers, storage>>

\* (await kv.get(`user_recipes:${user.id}`)) || []
userRecipes(u) ==
    IF kvHas(<<"user_recipes", u>>) THEN kv[<<"user_recipes", u>>] ELSE <<>>

PostRecipes_getList(r) ==
    /\ AtRoute(r, "postRecipes", "getList")
    /\ reqs' = Step(r, "setList", reqs[r].user, userRecipes(reqs[r].user))
    /\ UNCHANGED <<clientVars, authUsers, kv, storage>>

PostRecipes_setList(r) ==
    /\ AtRoute(r, "postRecipes", "setList")
    /\ kv' = kvSet(<<"user_recipes", reqs[r].user>>,
                   Append(reqs[r].local, randomUUID(r)))
    /\ reqs' = Respond(r, 200, {})
    /\ UNCHANGED <<clientVars, authUsers, storage>>

MyRecipes_getList(r) ==
    /\ AtRoute(r, "myRecipes", "authed")
    /\ reqs' = Step(r, "getRecipes", reqs[r].user, userRecipes(reqs[r].user))
    /\ UNCHANGED <<clientVars, authUsers, kv, storage>>

MyRecipes_getRecipes(r) ==
    /\ AtRoute(r, "myRecipes", "getRecipes")
    /\ LET recipeIds == reqs[r].local
       IN  reqs' = Respond(r, 200,
                     { recipeIds[n] : n \in { m \in DOMAIN recipeIds :
                                       kvHas(<<"recipe", recipeIds[m]>>) } })
    /\ UNCHANGED <<clientVars, authUsers, kv, storage>>

\* userProfile?.role as the handler read it
RoleRead(rs, r, k) ==
    [rs EXCEPT ![r].role = IF kvHas(k) THEN kv[k]["role"] ELSE NoRole]

CanCreateResources_AnyProfile(k) == kvHas(k)

\* !userProfile || (role !== "instructor" && role !== "admin") is false
CanCreateResources(k) ==
    kvHas(k) /\ (kv[k]["role"] = "instructor" \/ kv[k]["role"] = "admin")

PostResources_check(r) ==
    /\ AtRoute(r, "postResources", "authed")
    /\ LET k == <<"user", reqs[r].user>>
       IN  reqs' = RoleRead(IF CanCreateResources(k)
                            THEN Step(r, "set", reqs[r].user, <<>>)
                            ELSE Respond(r, 403, {}), r, k)
    /\ UNCHANGED <<clientVars, authUsers, kv, storage>>

PostResources_set(r) ==
    /\ AtRoute(r, "postResources", "set")
    /\ kv' = kvSet(<<"resource", randomUUID(r)>>,
                   [id |-> randomUUID(r), author_id |-> reqs[r].user])
    /\ reqs' = Called(Respond(r, 200, {}), r, "kv.set")
    /\ UNCHANGED <<clientVars, authUsers, storage>>

\* !userProfile || userProfile.role !== "admin" is false
IsAdmin(k) == kvHas(k) /\ kv[k]["role"] = "admin"

AdminUsers_check(r) ==
    /\ AtRoute(r, "adminUsers", "authed")
    /\ LET k == <<"user", reqs[r].user>>
       IN  reqs' = RoleRead(IF IsAdmin(k)
                            THEN Step(r, "list", reqs[r].user, <<>>)
                            ELSE Respond(r, 403, {}), r, k)
    /\ UNCHANGED <<clientVars, authUsers, kv, storage>>

AdminUsers_list(r) ==
    /\ AtRoute(r, "adminUsers", "list")
    /\ reqs' = Respond(r, 200, kvGetByPrefix("user"))
    /\ UNCHANGED <<clientVars, authUsers, kv, storage>>

IsOwnFile_AnyOwner(fileName, u) == fileName # <<>>

\* fileName.startsWith(`${user.id}/`)
IsOwnFile(fileName, u) == StartsWith(fileName, OwnPrefix(u))

DeleteFile_check(r) ==
    /\ AtRoute(r, "deleteFile", "authed")
    /\ LET b == reqs[r].body
       IN  reqs' = IF b.fileName = <<>> \/ b.bucket = ""
                   THEN Respond(r, 400, {})
                   ELSE IF ~IsOwnFile(b.fileName, reqs[r].user)
                   THEN Respond(r, 403, {})
                   ELSE Step(r, "remove", reqs[r].user, <<>>)
    /\ UNCHANGED <<clientVars, authUsers, kv, storage>>

\* supabase.storage.from(bucket).remove([fileName]) answers with or without
\* an error
DeleteFile_remove(r, deleteError) ==
    /\ AtRoute(r, "deleteFile", "remove")
    /\ storage' = IF deleteError THEN storage
                  ELSE storage \ { <<reqs[r].body.bucket, reqs[r].body.fileName>> }
    /\ reqs' = Called(Respond(r, IF deleteError THEN 500 ELSE 200, {}),
                      r, "storage.remove")
    /\ UNCHANGED <<clientVars, authUsers, kv>>

ServerNext ==
    \/ \E r \in ReqIds, route \in Routes :
         \E in \in Inputs(route) : Receive(r, route, in[1], in[2])
    \/ \E r \in ReqIds : getUserFromToken(r)
    \/ \E r \in ReqIds : Signup_createUser(r)
    \/ \E r \in ReqIds : Signup_setProfile(r)
    \/ \E r \in ReqIds : PutProfile_get(r)
    \/ \E r \in ReqIds : PutProfile_set(r)
    \/ \E r \in ReqIds : PostRecipes_setRecipe(r)
    \/ \E r \in ReqIds : PostRecipes_getList(r)
    \/ \E r \in ReqIds : PostRecipes_setList(r)
    \/ \E r \in ReqIds : MyRecipes_getList(r)
    \/ \E r \in ReqIds : MyRecipes_getRecipes(r)
    \/ \E r \in ReqIds : PostResources_check(r)
    \/ \E r \in ReqIds : PostResources_set(r)
    \/ \E r \in ReqIds : AdminUsers_check(r)
    \/ \E r \in ReqIds : AdminUsers_list(r)
    \/ \E r \in ReqIds : DeleteFile_check(r)
    \/ \E r \in ReqIds, deleteError \in BOOLEAN : DeleteFile_remove(r, deleteError)

ServerSpec == ServerInit /\ [][ServerNext]_vars

----------------------------------------------------------------------------
\* Claims.

IsEnhanced == component = "Enhanced"

\* invocation i ends in this step
Ends(i) == inv[i].pc # "done" /\ inv'[i].pc = "done"

\* C1: every invocation of EnhancedImageUpload.uploadFile ends with the
\* upload state in a terminal status, 'success' or 'error', and with that
\* outcome; none ends with the status still 'idle' or 'uploading'.
C1_EndsInTerminalStatus ==
    [][\A i \in InvIds :
          (IsEnhanced /\ Ends(i)) =>
              /\ uploadState'.status \in {"success", "error"}
              /\ inv'[i].outcome \in {"success", "error"}]_vars

\* C2: every failure of an invocation of uploadFile is reported as a failure
\* value (status 'error' and the onError callback) and no exception leaves
\* uploadFile towards handleFileSelect.
C2_FailuresReportedNotThrown ==
    \A i \in InvIds :
        (IsEnhanced /\ inv[i].pc = "done") =>
            /\ inv[i].outcome # "thrown"
            /\ inv[i].outcome # "success" => inv[i].onError = 1

\* the MIME types the mounted component allows
AllowedTypes == IF IsEnhanced THEN ALLOWED_FILE_TYPES ELSE AcceptedTypes(component, props)

\* the byte limit of the mounted component
MaxBytes == IF IsEnhanced THEN props.maxSizeMB * MB ELSE MaxSizeBytes(component, props)

\* invocation i called the object store
CalledStore(i) == inv[i].uploads > 0 \/ inv[i].urls > 0

\* C3: a signed-in user's file whose MIME type is not allowed ends its
\* invocation in a reported failure of kind InvalidType, and the invocation
\* makes no call to the store (no upload, no getPublicUrl).
C3_InvalidTypeReported ==
    \A i \in InvIds :
        (inv[i].pc = "done" /\ user # NoUser /\ inv[i].file.type \notin AllowedTypes) =>
            /\ inv[i].outcome = "error"
            /\ Kind(inv[i].msg) = "InvalidType"
            /\ ~CalledStore(i)

\* the message names the limit and the actual size
NamesLimitAndSize(m, limitMB, size) ==
    /\ Len(m.nums) = 2
    /\ m.nums[1] = limitMB
    /\ m.nums[2] = ToFixed1MB(size)

\* C4: in EnhancedImageUpload and RobustImageUpload, a signed-in user's file
\* of an allowed type is refused by validation exactly when its byte length
\* is greater than the limit; the refusal is a failure TooLarge whose
\* message names the limit and the actual size, and the store is not called.
C4_SizeGate ==
    \A i \in InvIds :
        (/\ component \in {"Enhanced", "Robust"}
         /\ inv[i].pc = "done" /\ user # NoUser
         /\ inv[i].file.type \in AllowedTypes) =>
            /\ (Kind(inv[i].msg) = "TooLarge") <=> (inv[i].file.size > MaxBytes)
            /\ Kind(inv[i].msg) = "TooLarge" =>
                 /\ ~CalledStore(i)
                 /\ NamesLimitAndSize(inv[i].msg, MaxBytes \div MB, inv[i].file.size)

\* C5: in EnhancedImageUpload, while an invocation runs with no other
\* invocation in flight, the progress shown is the progress it set last and
\* never decreases; it ends with 100 exactly when it ends in 'success', and
\* the step that reports an error leaves the progress as it was.
C5_ProgressOfOneInvocation ==
    [][\A i \in InvIds :
          (IsEnhanced /\ inv'[i].solo /\ inv[i].own # -1) =>
              /\ inv'[i].own >= inv[i].own
              /\ InFlight(i) => uploadState'.progress = inv'[i].own
              /\ InFlight(i) => uploadState'.progress >= uploadState.progress
              /\ Ends(i) => ((inv'[i].outcome = "success") <=> (inv'[i].own = 100))
              /\ inv'[i].err # NoMsg => uploadState'.progress = uploadState.progress]_vars

\* C5 witness: one invocation that ran alone has ended in success at 100,
\* and the next, alone too, has ended in error with the progress it had set
\* before the failing upload.
C5_Witness ==
    \E i, j \in InvIds :
        /\ IsEnhanced
        /\ inv[i].solo /\ inv[i].pc = "done"
        /\ inv[i].outcome = "success" /\ inv[i].own = 100
        /\ inv[j].solo /\ inv[j].pc = "done"
        /\ inv[j].outcome = "error" /\ inv[j].own = 70
        /\ uploadState.status = "error" /\ uploadState.progress = 70

\* an invocation of handleFileUpload that has set the progress is in flight
BegunInFlight(i) == InFlight(i) /\ inv[i].own # -1

\* C6: in Fixed/Robust/Simple, while an invocation of handleFileUpload is
\* in flight, uploadProgress decreases only by the reset at the start of an
\* invocation; the deferred reset of an earlier invocation never lowers it.
C6_NoResetWhileInFlight ==
    [][(IsMedia /\ (\E i \in InvIds : BegunInFlight(i)) /\ uploadProgress' < uploadProgress)
          => \E j \in InvIds : inv[j].pc = "m_begin" /\ inv'[j].pc # "m_begin"]_vars

\* C7: in EnhancedImageUpload, the progress and status shown for an
\* invocation waiting on compressImage or on the upload are the ones it
\* set, whatever other invocations do.
C7_InvocationsIndependent ==
    \A i \in InvIds :
        (IsEnhanced /\ inv[i].pc \in {"awaitCompress", "awaitUpload"}) =>
            /\ uploadState.progress = inv[i].own
            /\ uploadState.status = "uploading"
            /\ uploadState.file = inv[i].file

\* C8: two invocations of one component for the same owner that read the
\* same millisecond timestamp have different storage keys.
C8_KeysDiffer ==
    \A i, j \in InvIds :
        (i # j /\ inv[i].key # <<>> /\ inv[j].key # <<>> /\ inv[i].ts = inv[j].ts) =>
            inv[i].key # inv[j].key

\* invocation i gets the answer of its upload call in this step
UploadAnswered(i) ==
    inv[i].pc \in {"awaitUpload", "m_awaitUpload"} /\ inv'[i].pc # inv[i].pc

\* C9: no step replaces or removes an object that is in the store; an upload
\* whose key is already in the store is answered with an error, leaves the
\* store as it is, and its invocation ends in failure.
C9_NoOverwrite ==
    [][/\ \A k \in DOMAIN store : k \in DOMAIN store' /\ store'[k] = store[k]
       /\ \A i \in InvIds :
            /\ (UploadAnswered(i) /\ StoreHas(store, inv[i].key)) =>
                   (store' = store /\ inv'[i].err # NoMsg)
            /\ (inv[i].err # NoMsg /\ InFlight(i)) =>
                   /\ inv'[i].outcome # "success"
                   /\ inv'[i].onUpload = 0
                   /\ InFlight(i)' => inv'[i].err # NoMsg]_vars

\* C9 witness: an upload to a key that another invocation had written was
\* refused by the store.
C9_Witness ==
    \E i \in InvIds :
        /\ InFlight(i)
        /\ inv[i].err.inner = "The resource already exists"
        /\ StoreHas(store, inv[i].key)
        /\ store[inv[i].key].by # i

\* the progress an invocation sets right before its upload call
ProgressAtUpload == IF IsEnhanced THEN 70 ELSE ProgressBefore2(component)

\* the order of the steps of an invocation
Rank(pc) ==
    CASE pc = "none" -> 0
      [] pc \in {"auth", "m_auth"} -> 1
      [] pc \in {"validate", "m_type"} -> 2
      [] pc = "m_size" -> 3
      [] pc \in {"set10", "m_begin"} -> 4
      [] pc = "set30" -> 5
      [] pc = "awaitCompress" -> 6
      [] pc = "set50" -> 7
      [] pc = "genKey" -> 8
      [] pc = "set70" -> 9
      [] pc \in {"m_p1", "m_genKey"} -> IF component = "Simple" THEN
                                            (IF pc = "m_p1" THEN 5 ELSE 6)
                                        ELSE (IF pc = "m_p1" THEN 6 ELSE 5)
      [] pc = "m_p2" -> 9
      [] pc \in {"awaitUpload", "m_awaitUpload"} -> 10
      [] pc \in {"set90", "m_p3"} -> 11
      [] pc \in {"getUrl", "m_getUrl"} -> 12
      [] pc \in {"setSuccess", "m_p4"} -> 13
      [] pc \in {"onUpload", "m_deliver"} -> 14
      [] pc \in {"catch", "m_catch"} -> 15
      [] pc \in {"onError", "m_finally"} -> 16
      [] OTHER -> 17

\* C10: an invocation calls upload at most once, exactly once when it has
\* got past validation and compression, and getPublicUrl at most once;
\* once it has failed it makes no store call, and it never goes back to an
\* earlier step.
C10_OneWriteNoRetry ==
    [][\A i \in InvIds :
          /\ inv'[i].uploads <= 1 /\ inv'[i].urls <= 1
          /\ (inv'[i].uploads = 1) <=> (inv'[i].own >= ProgressAtUpload)
          /\ (inv[i].err # NoMsg \/ inv[i].outcome \in {"error", "thrown"}) =>
                 (inv'[i].uploads = inv[i].uploads /\ inv'[i].urls = inv[i].urls)
          /\ inv'[i].pc # inv[i].pc => Rank(inv'[i].pc) > Rank(inv[i].pc)]_vars

\* C10 witness: an invocation whose upload failed has ended in error with
\* its single upload call made.
C10_Witness ==
    \E i \in InvIds :
        /\ inv[i].pc = "done" /\ inv[i].outcome = "error"
        /\ inv[i].uploads = 1 /\ inv[i].urls = 0
        /\ Kind(inv[i].msg) = "TransportFailed"

C12_CompressionFailureUploadsNothing ==
    \A i \in InvIds :
        IsEnhanced =>
            /\ (InFlight(i) /\ inv[i].uploads > 0) => inv[i].meta.present
            /\ ("CompressionFailed" \in {Kind(inv[i].err), Kind(inv[i].msg)}) =>
                   /\ inv[i].uploads = 0 /\ inv[i].urls = 0 /\ inv[i].onUpload = 0
                   /\ \A k \in DOMAIN store : store[k].by # i
                   /\ inv[i].pc = "done" =>
                        (inv[i].outcome = "error" /\ inv[i].onError = 1)
            /\ \A k \in DOMAIN store :
                   store[k].by = i => store[k].size # inv[i].file.size

\* C12 witness: an invocation has ended in the error of a failed
\* compression, after a first one had stored its compressed file.
C12_Witness ==
    \E i, j \in InvIds :
        /\ IsEnhanced /\ inv[i].pc = "done" /\ inv[i].outcome = "error"
        /\ Kind(inv[i].msg) = "CompressionFailed" /\ inv[i].own = 30
        /\ inv[j].outcome = "success"
        /\ \E k \in DOMAIN store : store[k].by = j

\* the upload call of invocation i has failed
UploadFailed(i) == "TransportFailed" \in {Kind(inv[i].err), Kind(inv[i].msg)}

\* C13: in all four components, an invocation whose upload call has failed
\* calls neither getPublicUrl nor the success callback, ends in a reported
\* error, and the message it reports contains the text of the store's error.
C13_StoreErrorReported ==
    \A i \in InvIds :
        UploadFailed(i) =>
            /\ inv[i].urls = 0 /\ inv[i].onUpload = 0
            /\ inv[i].pc = "done" =>
                 /\ inv[i].outcome = "error"
                 /\ inv[i].msg.inner \in {"The resource already exists",
                                          "Network request failed", "Failed to fetch"}

\* C14: in all four components, an invocation whose upload call has failed
\* reports the failure with the progress at the value it had set right
\* before the upload call.
C14_ProgressFrozenAtUploadFailure ==
    \A i \in InvIds :
        (UploadFailed(i) /\ inv[i].pc = "done") => inv[i].own = ProgressAtUpload

\* getPublicUrl has answered invocation i without a URL
NoUrlObtained(i) == InFlight(i) /\ inv[i].urls = 1 /\ inv[i].url = <<>>

\* C15: an invocation that got no public URL for the object it wrote is on
\* its way to the failure UrlResolutionFailed: it does not set the progress
\* to 100, does not set the status to 'success' and does not call the
\* success callback.
C15_NoUrlIsFailure ==
    \A i \in InvIds :
        NoUrlObtained(i) =>
            /\ Kind(inv[i].err) = "UrlResolutionFailed"
            /\ inv[i].own < 100
            /\ inv[i].onUpload = 0
            /\ IsEnhanced => uploadState.status # "success"

\* C16: in EnhancedImageUpload, whenever the status is 'success' the
\* progress is 100 and the preview is a public URL with the metadata of the
\* compression; and an invocation that has ended in success has called
\* onUpload exactly once.
C16_SuccessStateComplete ==
    /\ (IsEnhanced /\ uploadState.status = "success") =>
           /\ uploadState.progress = 100
           /\ uploadState.preview # <<>>
           /\ uploadState.metadata.present
    /\ \A i \in InvIds :
           (IsEnhanced /\ inv[i].pc = "done" /\ inv[i].outcome = "success") =>
               inv[i].onUpload = 1

Abandoned(i) ==
    /\ IsEnhanced
    /\ InFlight(i) /\ inv[i].own # -1
    /\ uploadState.status = "idle"

\* C18: in EnhancedImageUpload, the steps of an invocation that was
\* abandoned by handleReset while it was in flight leave the upload state
\* as the caller set it and call neither onUpload nor onError.
C18_AbandonedHasNoEffect ==
    [][\A i \in InvIds :
          (Abandoned(i) /\ running' = i) =>
              /\ uploadState' = uploadState
              /\ inv'[i].onUpload = inv[i].onUpload
              /\ inv'[i].onError = inv[i].onError]_vars

\* the absolute value of a number
Abs(x) == IF x < 0 THEN -x ELSE x

\* the metadata of compressed images that are present in the state
Metas == {inv[i].meta : i \in InvIds} \cup {uploadState.metadata}

\* C19: the width and height of the compressed image never exceed 1920;
\* when the larger native dimension exceeds 1920, the larger dimension of
\* the compressed image is 1920 or 1919, and its width : height ratio is
\* within 1% of the native ratio.
C19_ScaledWithinCap ==
    \A m \in Metas :
        m.present =>
            /\ m.width <= maxDimension /\ m.height <= maxDimension
            /\ MaxNum(img.width, img.height) > maxDimension =>
                 /\ MaxNum(m.width, m.height) \in {maxDimension - 1, maxDimension}
                 /\ 100 * Abs(m.width * img.height - m.height * img.width)
                        <= m.height * img.width

\* C20: for an image whose native width and height are both at most 1920,
\* compressImage can resolve, and whenever it has resolved the compressed
\* image has the native width and height; the invocation then goes on to
\* the upload.
C20_SmallImageUnchanged ==
    (img.width <= maxDimension /\ img.height <= maxDimension) =>
        /\ \A m \in Metas :
               m.present => (m.width = img.width /\ m.height = img.height)
        /\ \A i \in InvIds :
               /\ inv[i].pc = "awaitCompress" =>
                    \E res \in compressImageResults(inv[i].file) : res.ok
               /\ inv[i].meta.present =>
                    inv[i].pc \in {"set50", "genKey", "set70", "awaitUpload", "set90",
                                   "getUrl", "setSuccess", "onUpload", "catch", "onError"}

\* C20 witness: an image of 1920 x 1080 has been uploaded with its size
\* unchanged through all the phases.
C20_Witness ==
    /\ img = [width |-> 1920, height |-> 1080]
    /\ uploadState.status = "success" /\ uploadState.progress = 100
    /\ uploadState.metadata.present
    /\ uploadState.metadata.width = 1920 /\ uploadState.metadata.height = 1080
    /\ inv[1].pc = "done" /\ inv[1].outcome = "success" /\ inv[1].uploads = 1

\* C21: in FixedMediaUpload, an invocation for a video file runs no
\* compression, and the object it writes has the byte length and the
\* declared MIME type of the selected file.
C21_VideoStoredUnchanged ==
    \A i \in InvIds :
        (component = "Fixed" /\ IsVideo(inv[i].file)) =>
            /\ ~inv[i].meta.present
            /\ \A k \in DOMAIN store :
                   store[k].by = i =>
                       /\ store[k].size = inv[i].file.size
                       /\ store[k].type = inv[i].file.type

\* C21 witness: a video of 20 MB has been uploaded and delivered.
C21_Witness ==
    \E i \in InvIds :
        /\ component = "Fixed" /\ IsVideo(inv[i].file)
        /\ inv[i].pc = "done" /\ inv[i].outcome = "success"
        /\ \E k \in DOMAIN store :
               store[k] = [by |-> i, type |-> "video/mp4", size |-> 20 * MB]

\* the file name extensions of a MIME type
ExtensionsOf(type) ==
    CASE type = "image/jpeg" -> {"jpg", "jpeg"}
      [] type = "image/png"  -> {"png"}
      [] type = "image/webp" -> {"webp"}
      [] type = "image/gif"  -> {"gif"}
      [] type = "video/mp4"  -> {"mp4"}
      [] OTHER -> {}

\* C22: every storage key an invocation builds is
\* ownerId/timestamp-randomSuffix.extension, with the id of the signed-in
\* user in front and an extension of the MIME type of the uploaded bytes.
C22_KeyForm ==
    \A i \in InvIds :
        inv[i].key # <<>> =>
            LET key == inv[i].key
            IN  /\ Len(key) >= 6
                /\ key[1] = user /\ key[2] = "/"
                /\ key[3] = ToString(inv[i].ts) /\ key[4] = "-"
                /\ key[Len(key) - 1] = "."
                /\ key[Len(key)] \in ExtensionsOf(inv[i].file.type)

\* C23: while no user is signed in, no invocation calls upload or
\* getPublicUrl, none calls the success callback, none sets any progress,
\* and the store stays empty, whatever file is submitted.
C23_NoUserNoStoreCall ==
    user = NoUser =>
        /\ store = [k \in {} |-> NoObject]
        /\ \A i \in InvIds :
               /\ inv[i].uploads = 0 /\ inv[i].urls = 0 /\ inv[i].onUpload = 0
               /\ inv[i].key = <<>>
               /\ inv[i].own = -1
               /\ inv[i].outcome # "success"

\* C23 witness: without a user, FixedMediaUpload has refused two files, the
\* last of them a video of an accepted type and size.
C23_Witness ==
    /\ user = NoUser /\ component = "Fixed"
    /\ \A i \in InvIds :
           inv[i].pc = "done" /\ Kind(inv[i].msg) = "NotAuthenticated"
    /\ \E i \in InvIds :
           inv[i].file.type = "video/mp4" /\ inv[i].file.size = 20 * MB
    /\ Kind(uploadError) = "NotAuthenticated"

\* C24: in Fixed/Robust/Simple, uploading is true while an invocation of
\* handleFileUpload is between its upload call and its finally block, and
\* it is false when no invocation has begun and not ended.
C24_UploadingFlagTracksFlight ==
    IsMedia =>
        /\ \A i \in InvIds :
               inv[i].pc \in {"m_awaitUpload", "m_p3", "m_getUrl", "m_p4",
                              "m_deliver", "m_catch", "m_finally"} => uploading
        /\ (\A i \in InvIds : ~BegunInFlight(i)) => ~uploading

\* the limit stated to the user of FixedMediaUpload for a file, in MB
StatedLimitMB(file) == IF IsVideo(file) THEN 50 ELSE 10

\* C25: in FixedMediaUpload without the maxSizeMB prop, a signed-in user's
\* file of an accepted type is refused as too large exactly when an image
\* exceeds 10 MB or a video exceeds 50 MB, and the limit named in the
\* message is the limit the file was compared with.
C25_EnforcedLimitIsStatedLimit ==
    \A i \in InvIds :
        (/\ component = "Fixed" /\ props.maxSizeMB = 0 /\ user # NoUser
         /\ inv[i].pc = "done"
         /\ inv[i].file.type \in getAcceptedTypes(props)) =>
            /\ (Kind(inv[i].msg) = "TooLarge") <=>
                   (inv[i].file.size > StatedLimitMB(inv[i].file) * MB)
            /\ Kind(inv[i].msg) = "TooLarge" =>
                   inv[i].msg.nums[1] * MB = getMaxSize(props)

\* C26: in FixedMediaUpload and RobustImageUpload, the error message and
\* the success message are never both shown.
C26_ErrorAndSuccessExclusive ==
    component \in {"Fixed", "Robust"} => ~(uploadError # NoMsg /\ uploadSuccess # "")

\* the requests of a route
ReqsOf(route) == { r \in ReqIds : reqs[r].route = route }

Done(r) == reqs[r].pc = "done"

RemoveCalled(r) == "storage.remove" \in reqs[r].calls

\* the caller is authenticated and names a file under its own prefix
Entitled(r) ==
    /\ reqs[r].user # NoUser
    /\ StartsWith(reqs[r].body.fileName, <<reqs[r].user, "/">>)

BodyIncomplete(r) == reqs[r].body.fileName = <<>> \/ reqs[r].body.bucket = ""

\* the objects in storage before the requests
StoredBefore == { <<"media", f>> : f \in FileNames \ {<<>>} }

C28_RoleGates ==
    /\ \A r \in ReqsOf("postResources") :
        /\ "kv.set" \in reqs[r].calls => reqs[r].role \in {"instructor", "admin"}
        /\ Done(r) /\ reqs[r].role \notin {"instructor", "admin"} =>
                reqs[r].status \in {401, 403} /\ reqs[r].calls = {}
    /\ \A r \in ReqsOf("adminUsers") :
        /\ reqs[r].response # {} \/ reqs[r].pc = "list" => reqs[r].role = "admin"
        /\ Done(r) /\ reqs[r].role # "admin" =>
                /\ reqs[r].status \in {401, 403}
                /\ reqs[r].response = {} /\ reqs[r].calls = {}
    /\ \A k \in kvGetByPrefix("resource") :
            \E r \in ReqsOf("postResources") :
                /\ randomUUID(r) = k[2] /\ "kv.set" \in reqs[r].calls
                /\ reqs[r].role \in {"instructor", "admin"}

\* an instructor stored a resource and was refused the user list
C28_Witness ==
    \E r \in ReqsOf("postResources"), q \in ReqsOf("adminUsers") :
        /\ Done(r) /\ reqs[r].role = "instructor" /\ reqs[r].status = 200
        /\ kvHas(<<"resource", randomUUID(r)>>)
        /\ Done(q) /\ reqs[q].role = "instructor" /\ reqs[q].status = 403

\* C29: a PUT /profile request leaves the role and the id of the caller's
\* profile record as they were.
C29_RoleAndIdNeverChange ==
    [][\A r \in ReqIds :
          AtRoute(r, "putProfile", "set") /\ reqs'[r].pc = "done" =>
            LET k == <<"user", reqs[r].user>>
            IN  kvHas(k) =>
                    /\ kv'[k]["role"] = kv[k]["role"]
                    /\ kv'[k]["id"] = kv[k]["id"]]_vars

\* C30: once every POST /recipes request has completed, the list under
\* user_recipes:{author} holds the id of every recipe stored.
C30_NoRecipeIdLost ==
    (\A r \in ReqsOf("postRecipes") : Done(r)) =>
        \A k \in kvGetByPrefix("recipe") :
            \E n \in DOMAIN userRecipes(kv[k]["author_id"]) :
                userRecipes(kv[k]["author_id"])[n] = k[2]

====
